---- MODULE Spec2Model ----
(***************************************************************************)
(* GB Guide backend: the authentication and authorization core.            *)
(*                                                                         *)
(* The model covers the credential store (users), the owned resources      *)
(* (hotels, rooms), the password hasher, the token codec, the              *)
(* authentication resolver get_current_user, the role gate RoleChecker     *)
(* and the route handlers register, login, get_me, create_hotel,           *)
(* list_hotels, get_my_hotels, get_hotel and add_room.                     *)
(*                                                                         *)
(* Time is counted in whole seconds, the unit of the token's exp claim.    *)
(* The handlers other than register are single actions: they only read     *)
(* rows that no operation updates or deletes.  register is two steps       *)
(* (lookup, commit), because its duplicate-email lookup and its insert     *)
(* are separated by an await and other requests run in between.            *)
(***************************************************************************)
EXTENDS Integers, Sequences, FiniteSets, TLC

(***************************************************************************)
(* Bounds of the model.                                                    *)
(***************************************************************************)
MaxUserSeq == 2      \* register requests admitted: values of the users.id sequence
MaxHotels == 1       \* rows of the hotels table
MaxRooms == 1        \* rows of the rooms table
MaxTime == 2         \* last clock tick
MaxHeld == 1         \* issued tokens that clients keep for later requests

Emails == {"a@x.com", "b@x.com"}
\* passwords chosen at registration, and passwords tried at login
RegisterPasswords == {"pw-one"}
Passwords == {"pw-one", "pw-two"}
Salts == {1}

(***************************************************************************)
(* models.py: UserRole                                                     *)
(***************************************************************************)
CUSTOMER == "customer"
ADMIN == "admin"
HOTEL_OWNER == "hotel_owner"
CAR_RENTAL == "car_rental"
GUIDE == "guide"
UserRole == {CUSTOMER, ADMIN, HOTEL_OWNER, CAR_RENTAL, GUIDE}

\* a role list that leaves the admin out
require_hotel_role_owner_only == <<HOTEL_OWNER>>

\* hotels.py: require_hotel_role = RoleChecker([HOTEL_OWNER, ADMIN]), the
\* list of allowed roles
require_hotel_role == <<HOTEL_OWNER, ADMIN>>

(***************************************************************************)
(* str(user.id) and int(user_id): decimal text as a sequence of            *)
(* characters.                                                             *)
(***************************************************************************)
DigitChars == <<"0", "1", "2", "3", "4", "5", "6", "7", "8", "9">>

IsDigit(c) == \E d \in 1..10 : DigitChars[d] = c

DigitValue(c) == (CHOOSE d \in 1..10 : DigitChars[d] = c) - 1

RECURSIVE str(_)
str(n) ==
    IF n < 0 THEN <<"-">> \o str(0 - n)
    ELSE IF n < 10 THEN <<DigitChars[n + 1]>>
    ELSE str(n \div 10) \o <<DigitChars[(n % 10) + 1]>>

RECURSIVE DigitsValue(_)
DigitsValue(s) ==
    IF Len(s) = 0 THEN 0
    ELSE 10 * DigitsValue(SubSeq(s, 1, Len(s) - 1)) + DigitValue(s[Len(s)])

\* the characters of s as one string
RECURSIVE text(_)
text(s) == IF Len(s) = 0 THEN "" ELSE s[1] \o text(Tail(s))

AllDigits(s) == Len(s) > 0 /\ \A i \in 1..Len(s) : IsDigit(s[i])

\* int(s) raises ValueError unless s is an optional sign followed by digits.
int_raises(s) ==
    IF Len(s) > 0 /\ s[1] \in {"-", "+"}
    THEN ~AllDigits(Tail(s))
    ELSE ~AllDigits(s)

int(s) ==
    IF s[1] = "-" THEN 0 - DigitsValue(Tail(s))
    ELSE IF s[1] = "+" THEN DigitsValue(Tail(s))
    ELSE DigitsValue(s)

(***************************************************************************)
(* security.py: password hashing.  A bcrypt hash carries its salt and the  *)
(* digest of (salt, password); verification recomputes the digest with     *)
(* the salt stored in the hash.  pwd_context knows the bcrypt scheme only:  *)
(* CryptContext.verify raises (a ValueError) on a string it cannot         *)
(* identify as bcrypt and on a bcrypt string it cannot parse.              *)
(***************************************************************************)
hash_password(plain_password, salt) ==
    [scheme |-> "bcrypt", salt |-> salt, digest |-> <<salt, plain_password>>]

\* pwd_context.verify raises on this stored string
verify_password_raises(hashed_password) ==
    \/ hashed_password.scheme # "bcrypt"
    \/ Len(hashed_password.digest) # 2

verify_password(plain_password, hashed_password) ==
    <<hashed_password.salt, plain_password>> = hashed_password.digest

(***************************************************************************)
(* security.py: the token codec.  A token is the signed header and         *)
(* payload; key names the secret that signed it.  The sub claim is absent, *)
(* a JSON string (chars) or a JSON number.                                 *)
(***************************************************************************)
\* The settings the codec reads: the key, the algorithm and the lifetime of
\* a token, the lifetime counted in clock ticks.
JWT_SECRET_KEY == "server-secret"
JWT_ALGORITHM == "HS256"
JWT_ACCESS_TOKEN_EXPIRE == 1

NoSub == [kind |-> "absent", chars |-> <<>>]
StrSub(s) == [kind |-> "str", chars |-> s]
NumSub(n) == [kind |-> "num", chars |-> str(n)]

NoToken ==
    [kind |-> "none", key |-> "", alg |-> "", sub |-> NoSub, exp |-> 0]
Garbage ==
    [kind |-> "garbage", key |-> "", alg |-> "", sub |-> NoSub, exp |-> 0]
Jwt(key, alg, sub, exp) ==
    [kind |-> "jwt", key |-> key, alg |-> alg, sub |-> sub, exp |-> exp]

\* a token built from an empty payload instead of a copy of data
create_access_token_no_sub(sub, t) ==
    Jwt(JWT_SECRET_KEY, JWT_ALGORITHM, NoSub, t + JWT_ACCESS_TOKEN_EXPIRE)

create_access_token(sub, t) ==
    Jwt(JWT_SECRET_KEY, JWT_ALGORITHM, sub, t + JWT_ACCESS_TOKEN_EXPIRE)

\* a decode that does not verify the exp claim
jwt_decode_raises_no_exp(token, t) ==
    \/ token.kind # "jwt"
    \/ token.alg # JWT_ALGORITHM
    \/ token.key # JWT_SECRET_KEY
    \/ token.sub.kind = "num"

\* jwt.decode(token, JWT_SECRET_KEY, algorithms=[JWT_ALGORITHM]) raises a
\* JWTError: malformed token, algorithm not allowed, signature mismatch,
\* exp in the past, or a sub claim that is not a string.
jwt_decode_raises(token, t) ==
    \/ token.kind # "jwt"
    \/ token.alg # JWT_ALGORITHM
    \/ token.key # JWT_SECRET_KEY
    \/ token.exp < t
    \/ token.sub.kind = "num"

(***************************************************************************)
(* Outcomes of a dependency or handler: an HTTP response, or an exception  *)
(* no handler catches, which the framework answers with 500.               *)
(***************************************************************************)
Outcome(status, detail, www, uid) ==
    [status |-> status, detail |-> detail, www |-> www, uid |-> uid]

\* security.py: credentials_exception
credentials_exception ==
    Outcome(401, "Could not validate credentials.", TRUE, 0)
\* OAuth2PasswordBearer(tokenUrl=...) with no bearer token in the request
not_authenticated == Outcome(401, "Not authenticated", TRUE, 0)
\* an exception that is not an HTTPException
unhandled(exc) == Outcome(500, exc, FALSE, 0)
\* the dependency returned the user with this id
resolved(uid) == Outcome(0, "", FALSE, uid)

UserById(store, id) == {u \in store : u.id = id}
UserByEmail(store, email) == {u \in store : u.email = email}
TheUser(store, id) == CHOOSE u \in store : u.id = id

get_current_user(token, store, t) ==
    IF token.kind = "none" THEN not_authenticated
    ELSE IF jwt_decode_raises(token, t) THEN credentials_exception
    ELSE IF token.sub.kind = "absent" THEN credentials_exception
    ELSE IF int_raises(token.sub.chars) THEN unhandled("ValueError")
    ELSE IF UserById(store, int(token.sub.chars)) = {} THEN credentials_exception
    ELSE resolved(int(token.sub.chars))

(***************************************************************************)
(* security.py: RoleChecker.__call__ on top of get_current_user.           *)
(***************************************************************************)
\* a gate that returns the user without looking at the role
RoleChecker_no_check(allowed_roles, token, store, t) ==
    get_current_user(token, store, t)

\* [r.value for r in allowed_roles], formatted
RECURSIVE role_values(_)
role_values(roles) ==
    IF Len(roles) = 0 THEN ""
    ELSE "'" \o roles[1] \o "'"
         \o (IF Len(roles) > 1 THEN ", " ELSE "") \o role_values(Tail(roles))

RoleChecker(allowed_roles, token, store, t) ==
    LET current_user == get_current_user(token, store, t)
    IN  IF current_user.status # 0 THEN current_user
        ELSE IF \A i \in DOMAIN allowed_roles :
                    allowed_roles[i] # TheUser(store, current_user.uid).role
        THEN Outcome(403,
                     "Role '" \o TheUser(store, current_user.uid).role
                         \o "' is not permitted. Required: ["
                         \o role_values(allowed_roles) \o "].",
                     FALSE, current_user.uid)
        ELSE current_user

(***************************************************************************)
(* State.                                                                  *)
(***************************************************************************)
VARIABLES
    users,      \* table users: set of [id, email, password_hash, role]
    user_seq,   \* last value handed out by the users.id sequence
    hotels,     \* table hotels: sequence of [owner_id]; the id is the index
    rooms,      \* table rooms: sequence of [hotel_id]; the id is the index
    now,        \* the clock, in seconds
    held,       \* tokens issued by login that a client still holds
    pending,    \* register requests past their lookup: email -> count
    last        \* the request served at this tick and its response

vars == <<users, user_seq, hotels, rooms, now, held, pending, last>>

Reply(op, out, token, hid, email, pw, new) ==
    [op |-> op, status |-> out.status, detail |-> out.detail, www |-> out.www,
     uid |-> out.uid, token |-> token, hid |-> hid, email |-> email,
     pw |-> pw, new |-> new]

Idle == Reply("idle", Outcome(0, "", FALSE, 0), NoToken, 0, "", "", 0)

Init ==
    /\ users = {}
    /\ user_seq = 0
    /\ hotels = <<>>
    /\ rooms = <<>>
    /\ now = 0
    /\ held = {}
    /\ pending = [e \in Emails |-> 0]
    /\ last = Idle

(***************************************************************************)
(* auth.py: register.  The lookup and the insert are separate steps; the   *)
(* body of a request in flight is read only by the commit, so its          *)
(* password and role are drawn there; a lookup that finds no user leaves   *)
(* the request in flight, with no response yet (status 0).  The insert takes the next value of  *)
(* the id sequence whether or not it succeeds, and the unique constraint   *)
(* on users.email makes it fail with IntegrityError, which register does   *)
(* not catch.                                                              *)
(***************************************************************************)
PendingTotal == pending["a@x.com"] + pending["b@x.com"]

email_conflict == Outcome(409, "A user with this email already exists.", FALSE, 0)

created == Outcome(201, "", FALSE, 0)

ok == Outcome(200, "", FALSE, 0)

register_lookup(email) ==
    LET existing_user == UserByEmail(users, email)
    IN  IF existing_user # {}
        THEN /\ last' = Reply("register", email_conflict, NoToken, 0, email, "", 0)
             /\ UNCHANGED <<users, user_seq, hotels, rooms, now, held, pending>>
        ELSE /\ user_seq + PendingTotal < MaxUserSeq
             /\ pending' = [pending EXCEPT ![email] = @ + 1]
             /\ last' = Reply("register", resolved(0), NoToken, 0, email, "", 0)
             /\ UNCHANGED <<users, user_seq, hotels, rooms, now, held>>

\* a users table without the unique index on email
commit_raises_no_index(store, email) == FALSE

\* a register whose insert, when the email is taken, overwrites the stored
\* row of that email instead of failing
register_commit_upsert(email, password, role, salt) ==
    /\ pending[email] > 0
    /\ pending' = [pending EXCEPT ![email] = @ - 1]
    /\ user_seq' = user_seq + 1
    /\ users' = {u \in users : u.email # email} \cup
                   {[id |-> user_seq + 1, email |-> email,
                     password_hash |-> hash_password(password, salt),
                     role |-> role]}
    /\ last' = Reply("register", created, NoToken, 0, email, "", user_seq + 1)
    /\ UNCHANGED <<hotels, rooms, now, held>>

\* session.commit() of the INSERT: the unique index on users.email decides.
commit_raises(store, email) == UserByEmail(store, email) # {}

\* a register that stores every new user as a customer, whatever role the
\* body asks for
register_commit_as_customer(email, password, role, salt) ==
    /\ pending[email] > 0
    /\ pending' = [pending EXCEPT ![email] = @ - 1]
    /\ user_seq' = user_seq + 1
    /\ IF commit_raises(users, email)
       THEN /\ users' = users
            /\ last' = Reply("register", unhandled("IntegrityError"),
                             NoToken, 0, email, "", 0)
       ELSE /\ users' = users \cup
                   {[id |-> user_seq + 1, email |-> email,
                     password_hash |-> hash_password(password, salt),
                     role |-> CUSTOMER]}
            /\ last' = Reply("register", created, NoToken, 0, email, "",
                             user_seq + 1)
    /\ UNCHANGED <<hotels, rooms, now, held>>

register_commit(email, password, role, salt) ==
    /\ pending[email] > 0
    /\ pending' = [pending EXCEPT ![email] = @ - 1]
    /\ user_seq' = user_seq + 1
    /\ IF commit_raises(users, email)
       THEN /\ users' = users
            /\ last' = Reply("register", unhandled("IntegrityError"),
                             NoToken, 0, email, "", 0)
       ELSE /\ users' = users \cup
                   {[id |-> user_seq + 1, email |-> email,
                     password_hash |-> hash_password(password, salt),
                     role |-> role]}
            /\ last' = Reply("register", created, NoToken, 0, email, "",
                             user_seq + 1)
    /\ UNCHANGED <<hotels, rooms, now, held>>

(***************************************************************************)
(* auth.py: login.                                                         *)
(***************************************************************************)
invalid_credentials == Outcome(401, "Incorrect email or password.", TRUE, 0)

\* a login that answers an unknown email differently from a wrong password
login_check_reveals(email, password, store) ==
    LET user == UserByEmail(store, email)
    IN  IF user = {} THEN Outcome(404, "User not found.", FALSE, 0)
        ELSE IF ~verify_password(password, (CHOOSE u \in user : TRUE).password_hash)
        THEN Outcome(401, "Incorrect email or password.", TRUE, 0)
        ELSE Outcome(200, "", FALSE, (CHOOSE u \in user : TRUE).id)

\* the credential check of login: the outcome, before a token is issued
login_check(email, password, store) ==
    LET user == UserByEmail(store, email)
    IN  IF user = {} THEN invalid_credentials
        ELSE IF verify_password_raises((CHOOSE u \in user : TRUE).password_hash)
        THEN unhandled("ValueError")
        ELSE IF ~verify_password(password, (CHOOSE u \in user : TRUE).password_hash)
        THEN invalid_credentials
        ELSE Outcome(200, "", FALSE, (CHOOSE u \in user : TRUE).id)

login(email, password) ==
    LET out == login_check(email, password, users)
        access_token == create_access_token(StrSub(str(out.uid)), now)
    IN  IF out.status # 200
        THEN /\ last' = Reply("login", out, NoToken, 0, email, password, 0)
             /\ UNCHANGED <<users, user_seq, hotels, rooms, now, held, pending>>
        ELSE /\ last' = Reply("login", out, access_token, 0, email, password, 0)
             /\ \E keep \in SUBSET (held \cup {access_token}) :
                    /\ Cardinality(keep) <= MaxHeld
                    /\ held' = keep
             /\ UNCHANGED <<users, user_seq, hotels, rooms, now, pending>>

(***************************************************************************)
(* auth.py: get_me; hotels.py: get_my_hotels, create_hotel, get_hotel,     *)
(* add_room.                                                               *)
(***************************************************************************)
get_me(token) ==
    LET current_user == get_current_user(token, users, now)
    IN  /\ last' = Reply("get_me",
                         IF current_user.status # 0 THEN current_user
                         ELSE Outcome(200, "", FALSE, current_user.uid),
                         token, 0, "", "", 0)
        /\ UNCHANGED <<users, user_seq, hotels, rooms, now, held, pending>>

get_my_hotels(token) ==
    LET current_user == get_current_user(token, users, now)
    IN  /\ last' = Reply("get_my_hotels",
                         IF current_user.status # 0 THEN current_user
                         ELSE Outcome(200, "", FALSE, current_user.uid),
                         token, 0, "", "", 0)
        /\ UNCHANGED <<users, user_seq, hotels, rooms, now, held, pending>>

\* The JSON body of create_hotel.  HotelCreate declares name, location,
\* city, description and images; a key it does not declare, such as an
\* owner_id the client adds (0: none sent), is dropped by the schema.
HotelBodies == [owner_id : 0..MaxUserSeq]

\* a create_hotel that takes the owner from the body when the body names one
create_hotel_owner_from_body(token, hotel_in) ==
    LET current_user == RoleChecker(require_hotel_role, token, users, now)
    IN  IF current_user.status # 0
        THEN /\ last' = Reply("create_hotel", current_user, token, 0, "", "", 0)
             /\ UNCHANGED <<users, user_seq, hotels, rooms, now, held, pending>>
        ELSE /\ Len(hotels) < MaxHotels
             /\ hotels' = Append(hotels,
                                 [owner_id |-> IF hotel_in.owner_id # 0
                                               THEN hotel_in.owner_id
                                               ELSE current_user.uid])
             /\ last' = Reply("create_hotel",
                              Outcome(201, "", FALSE, current_user.uid),
                              token, 0, "", "", Len(hotels) + 1)
             /\ UNCHANGED <<users, user_seq, rooms, now, held, pending>>

\* a create_hotel behind authentication only, open to every role
create_hotel_any_role(token, hotel_in) ==
    LET current_user == get_current_user(token, users, now)
    IN  IF current_user.status # 0
        THEN /\ last' = Reply("create_hotel", current_user, token, 0, "", "", 0)
             /\ UNCHANGED <<users, user_seq, hotels, rooms, now, held, pending>>
        ELSE /\ Len(hotels) < MaxHotels
             /\ hotels' = Append(hotels, [owner_id |-> current_user.uid])
             /\ last' = Reply("create_hotel",
                              Outcome(201, "", FALSE, current_user.uid),
                              token, 0, "", "", Len(hotels) + 1)
             /\ UNCHANGED <<users, user_seq, rooms, now, held, pending>>

create_hotel(token, hotel_in) ==
    LET current_user == RoleChecker(require_hotel_role, token, users, now)
    IN  IF current_user.status # 0
        THEN /\ last' = Reply("create_hotel", current_user, token, 0, "", "", 0)
             /\ UNCHANGED <<users, user_seq, hotels, rooms, now, held, pending>>
        ELSE /\ Len(hotels) < MaxHotels
             /\ hotels' = Append(hotels, [owner_id |-> current_user.uid])
             /\ last' = Reply("create_hotel",
                              Outcome(201, "", FALSE, current_user.uid),
                              token, 0, "", "", Len(hotels) + 1)
             /\ UNCHANGED <<users, user_seq, rooms, now, held, pending>>

\* public: a SELECT over hotels, whatever the city filter
list_hotels ==
    /\ last' = Reply("list_hotels", ok, NoToken, 0, "", "", 0)
    /\ UNCHANGED <<users, user_seq, hotels, rooms, now, held, pending>>

hotel_not_found(hotel_id) ==
    Outcome(404, "Hotel with id " \o text(str(hotel_id)) \o " not found.",
            FALSE, 0)

get_hotel(hotel_id) ==
    /\ last' = Reply("get_hotel",
                     IF hotel_id \notin DOMAIN hotels THEN hotel_not_found(hotel_id)
                     ELSE ok,
                     NoToken, hotel_id, "", "", 0)
    /\ UNCHANGED <<users, user_seq, hotels, rooms, now, held, pending>>

\* an ownership check that looks at the role and not at the owner
not_owner_nor_admin_role_only(current_user, hotel) ==
    current_user.role \notin {HOTEL_OWNER, ADMIN}

\* an ownership check without the admin bypass
not_owner_nor_admin_no_bypass(current_user, hotel) ==
    hotel.owner_id # current_user.id

\* the ownership check of add_room: TRUE when the request is refused
not_owner_nor_admin(current_user, hotel) ==
    current_user.role # ADMIN /\ hotel.owner_id # current_user.id

\* an add_room that compares the owner before it looks at whether the hotel
\* was found: a hotel that is missing is a hotel the caller does not own
add_room_check_ownership_first(token, hotel_id, store, hotel_table, t) ==
    LET current_user == RoleChecker(require_hotel_role, token, store, t)
    IN  IF current_user.status # 0 THEN current_user
        ELSE IF /\ TheUser(store, current_user.uid).role # ADMIN
                /\ \/ hotel_id \notin DOMAIN hotel_table
                   \/ hotel_table[hotel_id].owner_id # current_user.uid
        THEN Outcome(403, "You can only add rooms to your own hotel.", FALSE,
                     current_user.uid)
        ELSE IF hotel_id \notin DOMAIN hotel_table
        THEN [hotel_not_found(hotel_id) EXCEPT !.uid = current_user.uid]
        ELSE Outcome(201, "", FALSE, current_user.uid)

\* add_room up to the point where the room is created
add_room_check(token, hotel_id, store, hotel_table, t) ==
    LET current_user == RoleChecker(require_hotel_role, token, store, t)
    IN  IF current_user.status # 0 THEN current_user
        ELSE IF hotel_id \notin DOMAIN hotel_table
        THEN [hotel_not_found(hotel_id) EXCEPT !.uid = current_user.uid]
        ELSE IF not_owner_nor_admin(TheUser(store, current_user.uid),
                                    hotel_table[hotel_id])
        THEN Outcome(403, "You can only add rooms to your own hotel.", FALSE,
                     current_user.uid)
        ELSE Outcome(201, "", FALSE, current_user.uid)

\* an add_room that inserts the room as soon as the hotel is found, before
\* the ownership check refuses the request
add_room_insert_before_check(token, hotel_id) ==
    LET out == add_room_check(token, hotel_id, users, hotels, now)
    IN  IF /\ out.status # 201
           /\ out.detail # "You can only add rooms to your own hotel."
        THEN /\ last' = Reply("add_room", out, token, hotel_id, "", "", 0)
             /\ UNCHANGED <<users, user_seq, hotels, rooms, now, held, pending>>
        ELSE /\ Len(rooms) < MaxRooms
             /\ rooms' = Append(rooms, [hotel_id |-> hotel_id])
             /\ last' = Reply("add_room", out, token, hotel_id, "", "",
                              IF out.status = 201 THEN Len(rooms) + 1 ELSE 0)
             /\ UNCHANGED <<users, user_seq, hotels, now, held, pending>>

add_room(token, hotel_id) ==
    LET out == add_room_check(token, hotel_id, users, hotels, now)
    IN  IF out.status # 201
        THEN /\ last' = Reply("add_room", out, token, hotel_id, "", "", 0)
             /\ UNCHANGED <<users, user_seq, hotels, rooms, now, held, pending>>
        ELSE /\ Len(rooms) < MaxRooms
             /\ rooms' = Append(rooms, [hotel_id |-> hotel_id])
             /\ last' = Reply("add_room", out, token, hotel_id, "", "",
                              Len(rooms) + 1)
             /\ UNCHANGED <<users, user_seq, hotels, now, held, pending>>

(***************************************************************************)
(* The clock advances between requests.                                    *)
(***************************************************************************)
Tick ==
    /\ now < MaxTime
    /\ now' = now + 1
    /\ UNCHANGED <<users, user_seq, hotels, rooms, held, pending, last>>

(***************************************************************************)
(* database.py: get_session.  The request ends: the response recorded in   *)
(* last has been sent and the request's session is closed.                 *)
(***************************************************************************)
Respond ==
    /\ last # Idle
    /\ last' = Idle
    /\ UNCHANGED <<users, user_seq, hotels, rooms, now, held, pending>>

(***************************************************************************)
(* The API as its clients drive it.  A client presents no token, a token   *)
(* it obtained from login, or a token signed with a key of its own.        *)
(***************************************************************************)
Forged ==
    Jwt("client-secret", JWT_ALGORITHM, StrSub(str(1)), MaxTime + JWT_ACCESS_TOKEN_EXPIRE)

Presented == held \cup {NoToken, Forged}

HotelIds == 1..(MaxHotels + 1)

\* last is the response of the request being answered; the next request is
\* taken up once it has been sent.
Next ==
    \/ /\ last = Idle
       /\ \/ \E email \in Emails : register_lookup(email)
          \/ \E email \in Emails, password \in RegisterPasswords,
                role \in UserRole, salt \in Salts :
                    register_commit(email, password, role, salt)
          \/ \E email \in Emails, password \in Passwords : login(email, password)
          \/ \E token \in Presented : get_me(token)
          \/ \E token \in Presented : get_my_hotels(token)
          \/ \E token \in Presented, hotel_in \in HotelBodies :
                create_hotel(token, hotel_in)
          \/ list_hotels
          \/ \E hotel_id \in HotelIds : get_hotel(hotel_id)
          \/ \E token \in Presented, hotel_id \in HotelIds : add_room(token, hotel_id)
          \/ Tick
    \/ Respond

Spec == Init /\ [][Next]_vars

(***************************************************************************)
(* The authentication resolver on its own: any store register can build,   *)
(* any time, and any bearer token a request can carry, including tokens    *)
(* signed with the server's key whose payload is not one login writes.     *)
(***************************************************************************)
UserRows(ids) ==
    [id : ids, email : Emails,
     password_hash : {hash_password(p, salt) : p \in RegisterPasswords, salt \in Salts},
     role : UserRole]

StoreSpace ==
    {{}} \cup {{u} : u \in UserRows({1})}
         \cup UNION {{{u, v} : v \in {w \in UserRows(2..MaxUserSeq) :
                                            w.email # u.email}} :
                      u \in UserRows({1})}

SubSpace ==
    {NoSub, NumSub(1)}
        \cup {StrSub(str(n)) : n \in 0..(MaxUserSeq + 1)}
        \cup {StrSub(<<"0", "1">>), StrSub(<<"-", "1">>), StrSub(<<"a">>),
              StrSub(<<"1", "a">>), StrSub(<<>>)}

TokenSpace ==
    {NoToken, Garbage}
        \cup {Jwt(key, alg, sub, exp) :
                key \in {JWT_SECRET_KEY, "client-secret"},
                alg \in {JWT_ALGORITHM, "none"},
                sub \in SubSpace,
                exp \in 0..(MaxTime + JWT_ACCESS_TOKEN_EXPIRE)}

InitResolver ==
    /\ users \in StoreSpace
    /\ user_seq = MaxUserSeq
    /\ hotels = <<>>
    /\ rooms = <<>>
    /\ now \in 0..MaxTime
    /\ held = {}
    /\ pending = [e \in Emails |-> 0]
    /\ last = Idle

NextResolver == last = Idle /\ \E token \in TokenSpace : get_me(token)

SpecResolver == InitResolver /\ [][NextResolver]_vars

(***************************************************************************)
(* The protected operations on their own, over the same stores, times and  *)
(* tokens, with or without a hotel that a user allowed to create one owns. *)
(***************************************************************************)
HotelTables(store) ==
    {<<>>} \cup {<<[owner_id |-> u.id]>> :
                    u \in {v \in store : v.role \in {HOTEL_OWNER, ADMIN}}}

InitGate ==
    /\ users \in StoreSpace
    /\ user_seq = MaxUserSeq
    /\ hotels \in HotelTables(users)
    /\ rooms = <<>>
    /\ now \in 0..MaxTime
    /\ held = {}
    /\ pending = [e \in Emails |-> 0]
    /\ last = Idle

NextGate ==
    /\ last = Idle
    /\ \E token \in TokenSpace :
          \/ get_me(token)
          \/ get_my_hotels(token)
          \/ \E hotel_in \in HotelBodies : create_hotel(token, hotel_in)
          \/ \E hotel_id \in HotelIds : add_room(token, hotel_id)

SpecGate == InitGate /\ [][NextGate]_vars

(***************************************************************************)
(* login on its own, over stores whose password_hash column holds what     *)
(* register wrote or a string of another origin: a digest of a scheme      *)
(* other than bcrypt, an empty string, a truncated bcrypt string.          *)
(***************************************************************************)
ForeignDigest == [scheme |-> "md5", salt |-> 0, digest |-> <<0, "pw-one">>]
EmptyDigest == [scheme |-> "", salt |-> 0, digest |-> <<>>]
TruncatedDigest == [scheme |-> "bcrypt", salt |-> 1, digest |-> <<1>>]

StoredHashes ==
    {hash_password(p, salt) : p \in RegisterPasswords, salt \in Salts}
        \cup {ForeignDigest, EmptyDigest, TruncatedDigest}

LoginStoreSpace ==
    {{}} \cup {{u} : u \in [id : {1}, email : Emails,
                             password_hash : StoredHashes, role : UserRole]}

InitLogin ==
    /\ users \in LoginStoreSpace
    /\ user_seq = 1
    /\ hotels = <<>>
    /\ rooms = <<>>
    /\ now \in 0..MaxTime
    /\ held = {}
    /\ pending = [e \in Emails |-> 0]
    /\ last = Idle

NextLogin ==
    last = Idle /\ \E email \in Emails, password \in Passwords : login(email, password)

SpecLogin == InitLogin /\ [][NextLogin]_vars

\* every store the API builds is one of StoreSpace
StoreInSpace == users \in StoreSpace

(***************************************************************************)
(* Properties.  In the formulas a request is read off last: its operation, *)
(* its inputs (token, hid, email, pw), the identity it ran as (uid, 0 when *)
(* no identity was resolved) and its response.  A step that leaves the     *)
(* clock alone is a handler step and last' describes it.                   *)
(***************************************************************************)
Protected == {"get_me", "get_my_hotels", "create_hotel", "add_room"}

RoleOf(uid) == TheUser(users, uid).role

OwnershipRefusal == "You can only add rooms to your own hotel."

\* C1: add_room on an existing hotel by an authenticated identity that is
\* not an admin creates the room (201) if and only if the identity's id is
\* the hotel's owner_id; any other such identity, a hotel_owner included,
\* gets 403 and the rooms table is left as it was.
C1_OnlyOwnerAddsRoom ==
    [][(/\ now' = now
        /\ last'.op = "add_room"
        /\ last'.hid \in DOMAIN hotels
        /\ last'.uid # 0
        /\ RoleOf(last'.uid) # ADMIN)
       => IF hotels[last'.hid].owner_id = last'.uid
          THEN /\ last'.status = 201
               /\ rooms' = Append(rooms, [hotel_id |-> last'.hid])
          ELSE /\ last'.status = 403
               /\ rooms' = rooms]_vars

\* C1 witness: a hotel_owner asked to add a room to a hotel of another
\* identity and was refused with 403.
C1_Witness ==
    /\ last.op = "add_room"
    /\ last.hid \in DOMAIN hotels
    /\ last.uid # 0
    /\ RoleOf(last.uid) = HOTEL_OWNER
    /\ hotels[last.hid].owner_id # last.uid
    /\ last.status = 403
    /\ last.detail = OwnershipRefusal

\* C2: add_room on an existing hotel by an authenticated admin is never
\* refused: the response is 201 and the room belongs to the hotel named,
\* whoever owns the hotel.
C2_AdminBypass ==
    (/\ last.op = "add_room"
     /\ last.hid \in DOMAIN hotels
     /\ last.uid # 0
     /\ RoleOf(last.uid) = ADMIN)
    => /\ last.status = 201
       /\ last.new \in DOMAIN rooms
       /\ rooms[last.new].hotel_id = last.hid

\* C2 witness: an admin added a room to a hotel owned by another identity.
C2_Witness ==
    /\ last.op = "add_room"
    /\ last.status = 201
    /\ last.uid # 0
    /\ RoleOf(last.uid) = ADMIN
    /\ hotels[last.hid].owner_id # last.uid

\* C3 as claimed: every request that names a missing hotel id, get_hotel
\* or add_room, ends in 404 whoever the caller is and whether or not the
\* caller is authenticated.
C3_MissingHotelAlways404 ==
    (last.op \in {"get_hotel", "add_room"} /\ last.hid \notin DOMAIN hotels)
    => last.status = 404

\* C3 amended: get_hotel on a missing id always ends in 404; add_room on a
\* missing id ends in 404 exactly when the token resolves to an identity
\* whose role is hotel_owner or admin, in 401 when the request carries no
\* token, a token not signed with the server's key or an expired token, and
\* in 403 when the identity has another role; no room is created.
C3_MissingHotelAfterGates ==
    /\ (last.op = "get_hotel" /\ last.hid \notin DOMAIN hotels)
       => last.status = 404
    /\ (last.op = "add_room" /\ last.hid \notin DOMAIN hotels)
       => /\ last.status = 404
             <=> (last.uid # 0 /\ RoleOf(last.uid) \in {HOTEL_OWNER, ADMIN})
          /\ (\/ last.token.kind # "jwt"
              \/ last.token.key # JWT_SECRET_KEY
              \/ now > last.token.exp)
             => (last.status = 401 /\ last.www /\ last.uid = 0)
          /\ (last.uid # 0 /\ RoleOf(last.uid) \notin {HOTEL_OWNER, ADMIN})
             => last.status = 403
          /\ last.new = 0

\* C3 witness: a caller that passes the role gate named a missing hotel in
\* add_room and got 404.
C3_Witness ==
    /\ last.op = "add_room"
    /\ last.hid \notin DOMAIN hotels
    /\ last.uid # 0
    /\ last.status = 404

\* C4: behind require_hotel_role, create_hotel and add_room run for an
\* authenticated identity exactly when its role is hotel_owner or admin,
\* with that same identity as current_user; customer, car_rental and guide
\* get the gate's 403 and nothing is created.
C4_RoleGate ==
    (last.op \in {"create_hotel", "add_room"} /\ last.uid # 0)
    => IF RoleOf(last.uid) \in {HOTEL_OWNER, ADMIN}
       THEN /\ last.status \in {201, 403, 404}
            /\ last.status = 403 => last.detail = OwnershipRefusal
            /\ last.op = "create_hotel"
               => /\ last.status = 201
                  /\ hotels[last.new].owner_id = last.uid
                  /\ last.token.sub = StrSub(str(last.uid))
       ELSE /\ RoleOf(last.uid) \in {CUSTOMER, CAR_RENTAL, GUIDE}
            /\ last.status = 403
            /\ last.detail # OwnershipRefusal
            /\ last.new = 0

\* C4 witness: a guide called create_hotel and the gate answered 403.
C4_Witness ==
    /\ last.op = "create_hotel"
    /\ last.uid # 0
    /\ RoleOf(last.uid) = GUIDE
    /\ last.status = 403

\* the token is a string sub that reads as the decimal id of user u
TokenNames(token, u) ==
    /\ token.sub.kind = "str"
    /\ ~int_raises(token.sub.chars)
    /\ int(token.sub.chars) = u.id

\* signed with the server's key and algorithm, not expired at time t (exp
\* is in the past from the second after it), and naming u
ValidFor(token, u, t) ==
    /\ token.kind = "jwt"
    /\ token.key = JWT_SECRET_KEY
    /\ token.alg = JWT_ALGORITHM
    /\ t <= token.exp
    /\ TokenNames(token, u)

\* C5: get_current_user yields an identity only for a token with a valid
\* signature, unexpired, whose sub is the id of a user in the store, and
\* the identity is that user; every other token ends the request in 401
\* with no identity.
C5_FailClosed ==
    last.op = "get_me"
    => IF \E u \in users : ValidFor(last.token, u, now)
       THEN /\ last.status = 200
            /\ last.uid # 0
            /\ ValidFor(last.token, TheUser(users, last.uid), now)
       ELSE /\ last.status = 401
            /\ last.uid = 0

\* C6: whatever token is presented, get_current_user does not end in an
\* unhandled fault.
C6_NoUnhandledFault == last.op = "get_me" => last.status # 500

\* C7: the token of a successful login carries sub = str(u.id) of the user
\* u that logged in and, presented at once, resolves to u; a hotel_owner
\* calling create_hotel with the token just issued gets 201 and owns the
\* hotel.
C7_TokenRoundTrip ==
    /\ \A token \in held : \E u \in users : token.sub = StrSub(str(u.id))
    /\ (last.op = "login" /\ last.status = 200)
       => \E u \in users :
            /\ u.email = last.email
            /\ last.token.sub = StrSub(str(u.id))
            /\ get_current_user(last.token, users, now) = resolved(u.id)
    /\ (/\ last.op = "create_hotel"
        /\ last.token \in held
        /\ last.token.exp = now + JWT_ACCESS_TOKEN_EXPIRE)
       => \A u \in users :
            (last.token.sub = StrSub(str(u.id)) /\ u.role = HOTEL_OWNER)
            => /\ last.status = 201
               /\ last.uid = u.id
               /\ hotels[last.new].owner_id = u.id

\* C7 witness: a hotel_owner created a hotel with the token login issued
\* at this very tick.
C7_Witness ==
    /\ last.op = "create_hotel"
    /\ last.status = 201
    /\ last.token \in held
    /\ last.token.exp = now + JWT_ACCESS_TOKEN_EXPIRE
    /\ RoleOf(last.uid) = HOTEL_OWNER

\* C8: a token issued by login resolves to its user on every protected
\* request made before its expiry, whatever was done since it was issued,
\* and every protected request made with it after its expiry gets 401 with
\* WWW-Authenticate: Bearer.
C8_ExpiryOnly ==
    (last.op \in Protected /\ last.token \in held)
    => /\ now < last.token.exp
          => /\ last.uid # 0
             /\ last.token.sub = StrSub(str(last.uid))
             /\ last.status # 401
       /\ now > last.token.exp
          => /\ last.status = 401
             /\ last.www
             /\ last.uid = 0
             /\ last.new = 0

\* C8 witness: a token issued by login was presented to create_hotel after
\* its expiry, and the request was refused.
C8_Witness ==
    /\ last.op = "create_hotel"
    /\ last.token \in held
    /\ now > last.token.exp
    /\ last.status = 401

\* the password the user with this email registered with differs from pw
WrongPassword(email, pw) ==
    \E u \in users : u.email = email /\ u.password_hash.digest[2] # pw

\* C9: a login with an unknown email and a login with a known email and a
\* wrong password get the same response (401, the same detail, the same
\* WWW-Authenticate header) and no token.
C9_LoginFailureUniform ==
    (/\ last.op = "login"
     /\ \/ UserByEmail(users, last.email) = {}
        \/ WrongPassword(last.email, last.pw))
    => /\ last.status = 401
       /\ last.detail = "Incorrect email or password."
       /\ last.www
       /\ last.token = NoToken
       /\ last.uid = 0

\* C9 witness: a login with a registered email and a wrong password was
\* refused.
C9_Witness ==
    /\ last.op = "login"
    /\ WrongPassword(last.email, last.pw)
    /\ last.status = 401

\* C10: a register request that creates no user ends in 409, also when
\* another request for the same email committed between its lookup and its
\* insert.
C10_DuplicateIsConflict ==
    (last.op = "register" /\ last.status # 0 /\ last.new = 0)
    => last.status = 409

\* the stored row of the email of the login request has a digest that
\* pwd_context cannot verify
MalformedStored(email) ==
    \E u \in users : u.email = email /\ verify_password_raises(u.password_hash)

\* C11: a login against a user whose stored password_hash is corrupt or in
\* a foreign format ends in the InvalidCredentials response (401, the
\* uniform detail, WWW-Authenticate: Bearer), never in an unhandled fault.
C11_CorruptDigestIs401 ==
    (last.op = "login" /\ MalformedStored(last.email))
    => /\ last.status = 401
       /\ last.detail = invalid_credentials.detail
       /\ last.www

\* C12: add_room checks authentication, then the role gate, then that the
\* hotel exists, then ownership.  A caller who passed the role gate and named
\* a missing hotel gets 404, never 403, and no room; the ownership refusal
\* is only ever given about a hotel that exists and that the caller, not an
\* admin, does not own; the role gate's refusal does not depend on the hotel.
C12_CheckOrder ==
    last.op = "add_room"
    => /\ (/\ last.uid # 0
            /\ RoleOf(last.uid) \in {HOTEL_OWNER, ADMIN}
            /\ last.hid \notin DOMAIN hotels)
          => /\ last.status = 404
             /\ last.detail = hotel_not_found(last.hid).detail
             /\ last.new = 0
       /\ last.detail = OwnershipRefusal
          => /\ last.status = 403
             /\ last.hid \in DOMAIN hotels
             /\ last.uid # 0
             /\ RoleOf(last.uid) = HOTEL_OWNER
             /\ hotels[last.hid].owner_id # last.uid
       /\ (last.uid # 0 /\ RoleOf(last.uid) \notin {HOTEL_OWNER, ADMIN})
          => /\ last.status = 403
             /\ last.detail # OwnershipRefusal
       /\ last.status = 404
          => /\ last.uid # 0
             /\ RoleOf(last.uid) \in {HOTEL_OWNER, ADMIN}

\* C12 witness: a hotel_owner who owns none of the hotels there are named a
\* missing hotel and got 404, not the ownership refusal.
C12_Witness ==
    /\ last.op = "add_room"
    /\ last.status = 404
    /\ last.uid # 0
    /\ RoleOf(last.uid) = HOTEL_OWNER
    /\ hotels # <<>>
    /\ \A h \in DOMAIN hotels : hotels[h].owner_id # last.uid

\* C13: a request to a protected operation ends in exactly one of
\* Authorized (200, 201), Unauthenticated (401), Forbidden (403) and
\* NotFound (404); every outcome other than 401 is reached only with a
\* token that is valid for a stored user, as that user; a request whose
\* token is missing, invalid or expired ends in 401 and creates nothing.
C13_RequestStateMachine ==
    last.op \in Protected
    => /\ last.status \in {200, 201, 401, 403, 404}
       /\ last.status # 401
          => /\ last.uid # 0
             /\ ValidFor(last.token, TheUser(users, last.uid), now)
       /\ (~ \E u \in users : ValidFor(last.token, u, now))
          => /\ last.status = 401
             /\ last.uid = 0
             /\ last.new = 0

\* C14: no two stored users share an email, whatever the order in which the
\* lookups and the commits of concurrent register requests run.
C14_EmailUnique ==
    \A u \in users : \A v \in users : u.email = v.email => u = v

\* C14 witness: two register requests for one email both passed their
\* lookup; the first committed its row, the commit of the second was refused
\* by the unique index and the email is stored once.
C14_Witness ==
    /\ last.op = "register"
    /\ last.detail = unhandled("IntegrityError").detail
    /\ Cardinality(UserByEmail(users, last.email)) = 1

\* C15: no step of the API removes a stored user or changes its id or its
\* role: every row of users is a row of users after the step, and it is the
\* only row with its id, so the role an authorization check reads for an id
\* is the role that id was registered with.
C15_UsersAreKept ==
    [][\A u \in users :
          /\ u \in users'
          /\ \A v \in users' : v.id = u.id => v.role = u.role]_vars

\* C15 witness: two users registered, and with them in the store a hotel
\* and a room were created and the hotels were listed.
C15_Witness ==
    /\ last.op = "list_hotels"
    /\ Cardinality(users) = 2
    /\ hotels # <<>>
    /\ rooms # <<>>

\* C16: a step that changes the hotels table is a create_hotel answered 201
\* that appends one hotel whose owner_id is the id of the authenticated
\* caller, whatever the request body said; no step removes a hotel or
\* changes the owner_id of a hotel there is.
C16_OwnerIsCreator ==
    [][/\ \A h \in DOMAIN hotels :
             h \in DOMAIN hotels' /\ hotels'[h].owner_id = hotels[h].owner_id
       /\ hotels' # hotels
          => /\ last'.op = "create_hotel"
             /\ last'.status = 201
             /\ last'.uid # 0
             /\ ValidFor(last'.token, TheUser(users, last'.uid), now)
             /\ last'.new = Len(hotels) + 1
             /\ hotels' = Append(hotels, [owner_id |-> last'.uid])
       /\ (last = Idle /\ last'.op = "create_hotel" /\ last'.status = 201)
          => hotels' = Append(hotels, [owner_id |-> last'.uid])]_vars

\* C16 witness: with two users in the store, one of them created a hotel
\* and owns it.
C16_Witness ==
    /\ last.op = "create_hotel"
    /\ last.status = 201
    /\ Cardinality(users) = 2
    /\ last.new \in DOMAIN hotels
    /\ hotels[last.new].owner_id = last.uid

\* C17: the owner of every hotel is a stored user whose role is hotel_owner
\* or admin, and an add_room by the owner of the hotel it names is not
\* refused: the answer is 201.
C17_OwnerPassesGate ==
    /\ \A h \in DOMAIN hotels :
          /\ UserById(users, hotels[h].owner_id) # {}
          /\ RoleOf(hotels[h].owner_id) \in {HOTEL_OWNER, ADMIN}
    /\ (/\ last.op = "add_room"
        /\ last.hid \in DOMAIN hotels
        /\ last.uid # 0
        /\ last.uid = hotels[last.hid].owner_id)
       => last.status = 201

\* C17 witness: a hotel_owner added a room to the hotel it owns.
C17_Witness ==
    /\ last.op = "add_room"
    /\ last.status = 201
    /\ last.uid # 0
    /\ RoleOf(last.uid) = HOTEL_OWNER
    /\ hotels[last.hid].owner_id = last.uid

ErrorOutcomes ==
    {<<"register", 409>>, <<"login", 401>>,
     <<"create_hotel", 401>>, <<"create_hotel", 403>>,
     <<"add_room", 401>>, <<"add_room", 403>>, <<"add_room", 404>>}

ReadOnly == {"login", "get_me", "get_my_hotels", "get_hotel", "list_hotels"}

\* C18: a request answered with an error outcome (register 409, login 401,
\* create_hotel 401 or 403, add_room 401, 403 or 404), a login, and a read
\* (get_me, get_my_hotels, get_hotel, list_hotels) leave the users, hotels
\* and rooms tables and the id sequence as they were.
C18_ErrorsAndReadsKeepStore ==
    [][(/\ last' # last
        /\ \/ <<last'.op, last'.status>> \in ErrorOutcomes
           \/ last'.op \in ReadOnly)
       => /\ users' = users
          /\ user_seq' = user_seq
          /\ hotels' = hotels
          /\ rooms' = rooms
          /\ last'.new = 0]_vars

\* C18 witness: with a user and a hotel stored, a register for an email
\* that is taken was answered 409.
C18_Witness ==
    /\ last.op = "register"
    /\ last.status = 409
    /\ UserByEmail(users, last.email) # {}
    /\ hotels # <<>>

\* C19: register takes no credential and stores the role the body asks for:
\* a pending register for a free email can be committed with every role,
\* admin included.  Every stored admin logs in with the password it
\* registered with, and the token that login issues passes add_room on
\* every hotel there is, whoever owns it.
C19_AdminIsSelfService ==
    /\ \A email \in Emails :
          (last = Idle /\ pending[email] > 0 /\ UserByEmail(users, email) = {})
          => \A role \in UserRole :
                ENABLED (\E password \in RegisterPasswords, salt \in Salts :
                            /\ register_commit(email, password, role, salt)
                            /\ last'.status = 201
                            /\ last'.token = NoToken
                            /\ \E u \in users' :
                                  /\ u.id = last'.new
                                  /\ u.email = email
                                  /\ u.role = role)
    /\ \A u \in users :
          u.role = ADMIN
          => /\ \A p \in RegisterPasswords :
                   verify_password(p, u.password_hash)
                   => login_check(u.email, p, users) = Outcome(200, "", FALSE, u.id)
             /\ \A h \in DOMAIN hotels :
                   add_room_check(create_access_token(StrSub(str(u.id)), now),
                                  h, users, hotels, now)
                       = Outcome(201, "", FALSE, u.id)

\* C19 witness: starting with no user, a hotel_owner registered and created
\* a hotel; a later caller registered as admin, logged in, and with the
\* token of that login added a room to the hotel.
C19_Witness ==
    /\ last.op = "add_room"
    /\ last.status = 201
    /\ last.token \in held
    /\ last.uid # 0
    /\ last.token.sub = StrSub(str(last.uid))
    /\ RoleOf(last.uid) = ADMIN
    /\ RoleOf(hotels[last.hid].owner_id) = HOTEL_OWNER
    /\ hotels[last.hid].owner_id < last.uid
    /\ rooms[last.new].hotel_id = last.hid

====
